---- MODULE Spec2Model ----
(***************************************************************************)
(* Model of "Homework 9/sc_airbnb_listings_csv_to_jsonl.py": the script    *)
(* reads an Airbnb listings CSV with pandas, fills missing values, derives *)
(* the "text" column, projects/renames to doc_id/title/text, uploads one   *)
(* document per row with app.index.put, prints a success message and then  *)
(* issues the example queries.                                             *)
(*                                                                         *)
(* Text is modelled as a sequence of tokens: the text of a CSV cell is one  *)
(* token per character, a string literal of the source is one token.  So   *)
(* parsing (read_csv's type inference), formatting (the f-strings) and     *)
(* concatenation are computed, not assumed.                                *)
(*                                                                         *)
(* Input domain: id cells are numeric or textual (an identifier,           *)
(* "string/number"); name, room_type and neighbourhood cells are textual   *)
(* (no all-digit text), as the data model types them; every column may     *)
(* hold a missing cell.  The search service is external: each call to it   *)
(* either returns or raises, chosen nondeterministically.                  *)
(***************************************************************************)
EXTENDS Integers, Sequences, FiniteSets, TLC

VARIABLES csv, listings, columns, pc, i, calls, stdout, df, embedding_doc

vars == <<csv, listings, columns, pc, i, calls, stdout, df, embedding_doc>>

\* Largest number of data rows of the input CSV.
MaxRows == 2

----------------------------------------------------------------------------
(* Text and values                                                         *)

Digits == {"0", "1", "2", "3", "4", "5", "6", "7", "8", "9"}

DigitVal(ch) ==
  CASE ch = "0" -> 0 [] ch = "1" -> 1 [] ch = "2" -> 2 [] ch = "3" -> 3
    [] ch = "4" -> 4 [] ch = "5" -> 5 [] ch = "6" -> 6 [] ch = "7" -> 7
    [] ch = "8" -> 8 [] ch = "9" -> 9

DigitChar(d) == CHOOSE ch \in Digits : DigitVal(ch) = d

\* The cell texts read_csv takes as missing (its default na_values, within
\* the alphabet of the model): the empty cell and "NA".
NaValues == { <<>>, <<"N", "A">> }

IsIntText(c) == Len(c) > 0 /\ \A k \in 1..Len(c) : c[k] \in Digits

RECURSIVE ParseInt(_)
ParseInt(c) ==
  IF c = <<>> THEN 0
  ELSE ParseInt(SubSeq(c, 1, Len(c) - 1)) * 10 + DigitVal(c[Len(c)])

RECURSIVE FormatInt(_)
FormatInt(n) ==
  IF n < 10 THEN <<DigitChar(n)>>
  ELSE FormatInt(n \div 10) \o <<DigitChar(n % 10)>>

\* A cell of the DataFrame: an int64, a float64 (integral, or NaN), or a str.
IntV(n)   == [t |-> "int", n |-> n, s |-> <<>>]
FloatV(n) == [t |-> "float", n |-> n, s |-> <<>>]
StrV(s)   == [t |-> "str", n |-> 0, s |-> s]
NaN       == [t |-> "nan", n |-> 0, s |-> <<>>]

\* str(value), as the f-strings of lines 56 and 66 render it.
Format(v) ==
  CASE v.t = "int"   -> FormatInt(v.n)
    [] v.t = "float" -> FormatInt(v.n) \o <<".", "0">>
    [] v.t = "str"   -> v.s
    [] v.t = "nan"   -> <<"n", "a", "n">>

Contains(s, sub) ==
  \E k \in 0..(Len(s) - Len(sub)) : SubSeq(s, k + 1, k + Len(sub)) = sub

----------------------------------------------------------------------------
(* The input file                                                          *)

\* required_columns without 'neighbourhood': the check of line 53 misses it.
required_columns_NoNeighbourhood == {"id", "name", "room_type"}

\* required_columns without 'id': the id column is not filled.
required_columns_NoId == {"name", "room_type", "neighbourhood"}

required_columns == {"id", "name", "room_type", "neighbourhood"}

AllColumns == {"id", "name", "room_type", "neighbourhood", "price"}

\* Headers: the full one, and the ones lacking one required column.
Headers == {AllColumns} \cup {AllColumns \ {c} : c \in {"id", "name", "room_type", "neighbourhood"}}

\* The id cells: missing, an integer, an integer with a leading zero, a text.
IdCells == { <<>>, <<"7">>, <<"0", "7">>, <<"a">> }

\* The name, room_type and neighbourhood cells of a row: room_type and
\* neighbourhood each present or missing (as "NA", as the empty cell), name
\* missing with room_type.
TextCells ==
  { [name |-> <<"L">>, room_type |-> <<"P">>,      neighbourhood |-> <<"D">>],
    [name |-> <<"L">>, room_type |-> <<"P">>,      neighbourhood |-> <<>>],
    [name |-> <<>>,    room_type |-> <<"N", "A">>, neighbourhood |-> <<"D">>],
    [name |-> <<>>,    room_type |-> <<"N", "A">>, neighbourhood |-> <<>>] }

\* The rows a file with the full header may hold (price is a column the
\* script does not use; its cells are missing), and those of header h.
FullRows ==
  { [id |-> d, name |-> t.name, room_type |-> t.room_type,
     neighbourhood |-> t.neighbourhood, price |-> <<>>] : d \in IdCells, t \in TextCells }

RowsOver(header) == {[c \in header |-> r[c]] : r \in FullRows}

----------------------------------------------------------------------------
(* pandas steps of process_airbnb_csv_and_upload                           *)

\* read_csv's per-column inference: a column whose present cells are all
\* integers is int64, or float64 when a cell is missing; any other column is
\* object and keeps its texts; a missing cell is NaN.
ParseColumn(cells) ==
  LET present == {k \in 1..Len(cells) : cells[k] \notin NaValues}
      numeric == \A k \in present : IsIntText(cells[k])
      anyNull == \E k \in 1..Len(cells) : cells[k] \in NaValues
  IN  [k \in 1..Len(cells) |->
        IF cells[k] \in NaValues THEN NaN
        ELSE IF numeric
             THEN (IF anyNull THEN FloatV(ParseInt(cells[k])) ELSE IntV(ParseInt(cells[k])))
             ELSE StrV(cells[k])]

read_csv(file) ==
  LET col(c) == ParseColumn([k \in 1..Len(file.rows) |-> file.rows[k][c]])
  IN  [k \in 1..Len(file.rows) |-> [c \in file.header |-> col(c)[k]]]

\* fillna that fills nothing.
FillValue_Keep(v) == v

FillValue(v) == IF v = NaN THEN StrV(<<>>) ELSE v

\* listings[required_columns] = listings[required_columns].fillna('')
fillna(frame) ==
  [k \in 1..Len(frame) |->
    [c \in DOMAIN frame[k] |->
      IF c \in required_columns THEN FillValue(frame[k][c]) ELSE frame[k][c]]]

RoomTypeLabel == <<"Room type: ">>

NeighbourhoodLabel == <<" Neighbourhood: ">>

RowText(row) ==
  StrV(RoomTypeLabel \o Format(row["room_type"])
         \o NeighbourhoodLabel \o Format(row["neighbourhood"]))

AddText(frame) ==
  [k \in 1..Len(frame) |->
    [c \in (DOMAIN frame[k]) \cup {"text"} |->
      IF c = "text" THEN RowText(frame[k]) ELSE frame[k][c]]]

\* title taken from the wrong column.
Project_TitleFromRoomType(row) ==
  [doc_id |-> row["id"], title |-> row["room_type"], text |-> row["text"]]

\* The selection of line 59 keeping a column it should drop.
Project_KeepPrice(row) ==
  [doc_id |-> row["id"], title |-> row["name"], text |-> row["text"], price |-> row["price"]]

\* listings[['id', 'name', 'text']] renamed to doc_id, title, text.
Project(row) == [doc_id |-> row["id"], title |-> row["name"], text |-> row["text"]]

SelectRename(frame) == [k \in 1..Len(frame) |-> Project(frame[k])]

DocPrefix == <<"doc::">>

\* The {put, fields} envelope of the file format instead of {id, fields}.
Document_Envelope(row) ==
  [fields |-> row,
   put |-> <<"id:hybrid-search:">> \o DocPrefix \o Format(row.doc_id)]

Document(row) == [fields |-> row, id |-> DocPrefix \o Format(row.doc_id)]

----------------------------------------------------------------------------
Init ==
  /\ \E h \in Headers : \E n \in 0..MaxRows : \E rs \in [1..n -> RowsOver(h)] :
       csv = [header |-> h, rows |-> rs]
  /\ listings = <<>>
  /\ columns = {}
  /\ pc = "read_csv"
  /\ i = 1
  /\ calls = <<>>
  /\ stdout = <<>>
  /\ df = <<>>
  /\ embedding_doc = <<>>

ReadCsv ==
  /\ pc = "read_csv"
  /\ listings' = read_csv(csv)
  /\ columns' = csv.header
  /\ pc' = "fillna"
  /\ UNCHANGED <<csv, i, calls, stdout, df, embedding_doc>>

\* The exception swallowed and the statement tried again.
Raise_Retry(exc, at) == at

\* A failure of the upload swallowed, the script going on to the queries.
Raise_ContinueAfterUpload(exc, at) == IF at = "upload" THEN "keyword_search" ELSE exc

\* An exception nobody catches ends the script where it was raised (`at`);
\* the function has no try/except, nor has the module level.
Raise(exc, at) == exc

\* Line 53: selecting a column the frame lacks raises KeyError.
FillNaStep ==
  /\ pc = "fillna"
  /\ IF required_columns \subseteq columns
     THEN /\ listings' = fillna(listings)
          /\ pc' = "text"
     ELSE /\ pc' = Raise("KeyError", "fillna")
          /\ UNCHANGED listings
  /\ UNCHANGED <<csv, columns, i, calls, stdout, df, embedding_doc>>

\* Line 56.  On a frame without rows DataFrame.apply(axis=1) gives, depending
\* on the pandas version, an empty Series (the column is added) or a copy of
\* the frame (assigning it to one column raises ValueError): both outcomes
\* are allowed.
TextStep ==
  /\ pc = "text"
  /\ IF {"room_type", "neighbourhood"} \subseteq columns
     THEN /\ listings' = AddText(listings)
          /\ columns' = columns \cup {"text"}
          /\ pc' \in (IF Len(listings) = 0
                      THEN {"select", Raise("ValueError", "text")}
                      ELSE {"select"})
     ELSE /\ pc' = Raise("KeyError", "text")
          /\ UNCHANGED <<listings, columns>>
  /\ UNCHANGED <<csv, i, calls, stdout, df, embedding_doc>>

\* Lines 59-60.
SelectStep ==
  /\ pc = "select"
  /\ IF {"id", "name", "text"} \subseteq columns
     THEN /\ listings' = SelectRename(listings)
          /\ columns' = {"doc_id", "title", "text"}
          /\ i' = 1
          /\ pc' = "upload"
     ELSE /\ pc' = Raise("KeyError", "select")
          /\ UNCHANGED <<listings, columns, i>>
  /\ UNCHANGED <<csv, calls, stdout, df, embedding_doc>>

\* A loop that skips every other row.
IterNext_Skip(k) == k + 2

\* iterrows: the row after row k.
IterNext(k) == k + 1

\* Lines 63-68, one iteration whose app.index.put returns.
Put ==
  /\ pc = "upload"
  /\ i <= Len(listings)
  /\ calls' = Append(calls, [op |-> "put", ok |-> TRUE, doc |-> Document(listings[i])])
  /\ i' = IterNext(i)
  /\ UNCHANGED <<csv, listings, columns, pc, stdout, df, embedding_doc>>

\* Lines 63-68, one iteration whose app.index.put raises.
PutFails ==
  /\ pc = "upload"
  /\ i <= Len(listings)
  /\ calls' = Append(calls, [op |-> "put", ok |-> FALSE, doc |-> Document(listings[i])])
  /\ pc' = Raise("PutError", "upload")
  /\ UNCHANGED <<csv, listings, columns, i, stdout, df, embedding_doc>>

\* Line 70, after the loop.
PrintSuccess ==
  /\ pc = "upload"
  /\ i > Len(listings)
  /\ stdout' = Append(stdout, [msg |-> "uploaded", n |-> Len(listings)])
  /\ pc' = "keyword_search"
  /\ UNCHANGED <<csv, listings, columns, i, calls, df, embedding_doc>>

----------------------------------------------------------------------------
(* The example queries of the module level                                 *)

Hit ==
  [fields |-> [doc_id |-> StrV(<<"7">>), title |-> StrV(<<"L">>),
               text |-> StrV(RoomTypeLabel \o <<"P">> \o NeighbourhoodLabel \o <<"D">>),
               embedding |-> <<"e">>]]

\* What app.query may return: no hit, or one.
Responses == { <<>>, <<Hit>> }

display_hits_as_df(hits, fields) ==
  [k \in 1..Len(hits) |-> [f \in fields |-> hits[k].fields[f]]]

QueryKind(at) ==
  CASE at = "keyword_search"  -> "keyword"
    [] at = "semantic_search" -> "semantic"
    [] at = "get_embedding"   -> "get_embedding"
    [] at = "recommend"       -> "recommendation"

\* Lines 94-95.
KeywordSearch ==
  /\ pc = "keyword_search"
  /\ \E hits \in Responses :
       df' = display_hits_as_df(hits, {"doc_id", "title"})
  /\ calls' = Append(calls, [op |-> "query", ok |-> TRUE, kind |-> QueryKind(pc)])
  /\ stdout' = Append(stdout, [msg |-> "df"])
  /\ pc' = "semantic_search"
  /\ UNCHANGED <<csv, listings, columns, i, embedding_doc>>

\* Lines 99-100.
SemanticSearch ==
  /\ pc = "semantic_search"
  /\ \E hits \in Responses :
       df' = display_hits_as_df(hits, {"doc_id", "title"})
  /\ calls' = Append(calls, [op |-> "query", ok |-> TRUE, kind |-> QueryKind(pc)])
  /\ stdout' = Append(stdout, [msg |-> "df"])
  /\ pc' = "get_embedding"
  /\ UNCHANGED <<csv, listings, columns, i, embedding_doc>>

\* get_embedding's result: the first hit, or None (the empty sequence).
FirstHit(hits) == IF hits /= <<>> THEN <<hits[1]>> ELSE <<>>

\* Lines 103-104: get_embedding("12345", app), then `if embedding_doc:`.
GetEmbedding ==
  /\ pc = "get_embedding"
  /\ \E hits \in Responses :
       embedding_doc' = FirstHit(hits)
  /\ calls' = Append(calls, [op |-> "query", ok |-> TRUE, kind |-> QueryKind(pc)])
  /\ pc' = IF embedding_doc' /= <<>> THEN "recommend" ELSE "done"
  /\ UNCHANGED <<csv, listings, columns, i, stdout, df>>

\* Lines 105-112.
Recommend ==
  /\ pc = "recommend"
  /\ \E hits \in Responses :
       df' = display_hits_as_df(hits, {"doc_id", "title", "text"})
  /\ calls' = Append(calls, [op |-> "query", ok |-> TRUE, kind |-> QueryKind(pc),
                             vector |-> embedding_doc[1].fields.embedding])
  /\ stdout' = Append(stdout, [msg |-> "df"])
  /\ pc' = "done"
  /\ UNCHANGED <<csv, listings, columns, i, embedding_doc>>

\* app.query raises in any of the four places.
QueryFails ==
  /\ pc \in {"keyword_search", "semantic_search", "get_embedding", "recommend"}
  /\ calls' = Append(calls, [op |-> "query", ok |-> FALSE, kind |-> QueryKind(pc)])
  /\ pc' = Raise("QueryError", pc)
  /\ UNCHANGED <<csv, listings, columns, i, stdout, df, embedding_doc>>

Next ==
  \/ ReadCsv
  \/ FillNaStep
  \/ TextStep
  \/ SelectStep
  \/ Put
  \/ PutFails
  \/ PrintSuccess
  \/ KeywordSearch
  \/ SemanticSearch
  \/ GetEmbedding
  \/ Recommend
  \/ QueryFails

Spec == Init /\ [][Next]_vars

----------------------------------------------------------------------------
(* Properties                                                              *)

\* The positions of `calls` that are app.index.put calls.  The loop issues
\* them first and in row order, so the k-th is the call made for row k.
PutIdx == {k \in 1..Len(calls) : calls[k].op = "put"}

QueryIdx == {k \in 1..Len(calls) : calls[k].op = "query"}

\* The cell text with the empty string standing for a missing cell.
SubNull(cell) == IF cell \in NaValues THEN <<>> ELSE cell

FourColumns == {"id", "name", "room_type", "neighbourhood"}

\* C1: when one of id, name, room_type, neighbourhood is absent from the
\* header, the run ends in the KeyError of the fillna statement: it never gets
\* past that statement, no app.index.put call is made and nothing is printed,
\* whatever the number of rows.
C1_MissingColumnFailsBeforeEmit ==
  ~(FourColumns \subseteq csv.header) =>
      /\ pc \in {"read_csv", "fillna", "KeyError"}
      /\ calls = <<>>
      /\ stdout = <<>>

C1_Witness ==
  /\ pc = "KeyError"
  /\ "room_type" \notin csv.header
  /\ Len(csv.rows) > 0
  /\ calls = <<>>

\* C2: for every row whose id cell is present, the doc_id of the document
\* sent for that row has the string form of the id cell of the input.
C2_DocIdEqualsInputId ==
  \A k \in PutIdx :
    csv.rows[k]["id"] \notin NaValues =>
      Format(calls[k].doc.fields.doc_id) = csv.rows[k]["id"]

ExpectedDocs ==
  LET frame == SelectRename(AddText(fillna(read_csv(csv))))
  IN  [k \in 1..Len(frame) |-> Document(frame[k])]

\* C4: once the success message is printed, there are as many put calls as
\* input rows, all of them returned, and the k-th carries the document
\* derived from the k-th row; the message reports that number.
C4_EveryRowSentOnce ==
  stdout /= <<>> =>
      /\ Cardinality(PutIdx) = Len(csv.rows)
      /\ \A k \in 1..Len(csv.rows) :
           /\ calls[k].op = "put"
           /\ calls[k].ok
           /\ calls[k].doc = ExpectedDocs[k]
      /\ stdout[1] = [msg |-> "uploaded", n |-> Len(csv.rows)]

C4_Witness ==
  /\ pc = "keyword_search"
  /\ Len(csv.rows) = 2
  /\ csv.rows[1] /= csv.rows[2]
  /\ Cardinality(PutIdx) = 2

C6_FillLeavesIdUnchanged ==
  pc = "text" =>
    \A k \in 1..Len(listings) : listings[k]["id"] = read_csv(csv)[k]["id"]

\* C6, amended: the fillna statement replaces a missing value by the empty
\* string in all four of id, name, room_type and neighbourhood, and changes
\* nothing else (a present value, and every other column, are as read_csv
\* gave them); a row whose id is missing is sent with the empty-string doc_id
\* under the identifier "doc::".
C6_FillCoversIdToo ==
  /\ pc = "text" =>
       \A k \in 1..Len(listings) : \A c \in csv.header :
         listings[k][c] =
           (IF c \in FourColumns /\ read_csv(csv)[k][c] = NaN
            THEN StrV(<<>>)
            ELSE read_csv(csv)[k][c])
  /\ \A k \in PutIdx :
       csv.rows[k]["id"] \in NaValues =>
         /\ calls[k].doc.fields.doc_id = StrV(<<>>)
         /\ calls[k].doc.id = DocPrefix

C6_Witness ==
  /\ pc = "text"
  /\ \E k \in 1..Len(listings) :
       /\ csv.rows[k]["id"] \in NaValues
       /\ listings[k]["id"] = StrV(<<>>)
       /\ listings[k]["price"] = NaN

\* C7: every put call sends a document whose fields are exactly doc_id,
\* title and text, and whose identifier is "doc::" followed by the doc_id of
\* the row it was made for.
C7_FieldsAndIdentifier ==
  \A k \in PutIdx :
    /\ DOMAIN calls[k].doc.fields = {"doc_id", "title", "text"}
    /\ calls[k].doc.id = DocPrefix \o Format(listings[k].doc_id)

C7_Witness ==
  /\ "price" \in csv.header
  /\ \E k \in PutIdx :
       /\ csv.rows[k]["id"] = <<"a">>
       /\ calls[k].doc.id = DocPrefix \o <<"a">>

HybridPrefix == <<"id:hybrid-search:">> \o DocPrefix

C9_PutFailurePropagates ==
  /\ \A k \in PutIdx : ~calls[k].ok => k = Len(calls)
  /\ pc = "PutError" =>
       /\ Len(calls) = i
       /\ ~calls[i].ok
       /\ \A k \in 1..i :
            /\ calls[k].op = "put"
            /\ calls[k].doc = Document(listings[k])
            /\ (k < i => calls[k].ok)
       /\ stdout = <<>>

C9_Witness ==
  /\ pc = "PutError"
  /\ i = 2
  /\ calls[1].ok
  /\ ~calls[2].ok

\* C10: no put call follows a query; a query is issued only after every row
\* was sent and the success message printed, so a run that aborted in the
\* upload issues none; the recommendation query is issued only with a hit
\* from get_embedding.
C10_QueriesAfterUpload ==
  /\ \A a \in QueryIdx : \A b \in PutIdx : b < a
  /\ QueryIdx /= {} =>
       /\ stdout /= <<>>
       /\ Cardinality(PutIdx) = Len(listings)
       /\ \A k \in PutIdx : calls[k].ok
  /\ pc \in {"KeyError", "ValueError", "PutError"} => QueryIdx = {}
  /\ \A a \in QueryIdx : calls[a].kind = "recommendation" => embedding_doc /= <<>>
  /\ (pc = "done" /\ embedding_doc = <<>>) => calls[Len(calls)].kind = "get_embedding"

C10_Witness ==
  /\ pc = "done"
  /\ embedding_doc = <<>>
  /\ Cardinality(PutIdx) = 2
  /\ Cardinality(QueryIdx) = 3
====
